---- MODULE Spec2Model ----
(***************************************************************************)
(* Model of demo_predicao_diabetes.py: the decision engine                 *)
(* predizer_diabetes (threshold by clinical context, probability to label, *)
(* risk tier, confidence tag, result record) and the callers               *)
(* menu_interativo and comparar_thresholds.                                *)
(*                                                                         *)
(* Probabilities and thresholds are Python floats (IEEE-754 binary64).     *)
(* A float near the decimal c/100 is the record [c |-> c, e |-> e] whose   *)
(* exact value is c/100 + e * 2^-59 / 100: c counts hundredths and e is    *)
(* the (tiny) distance from that decimal, so two values compare            *)
(* lexicographically on (c, e).  Literals are rounded to the nearest       *)
(* float and the subtraction rounds to nearest, ties to even, as the       *)
(* interpreter does.  Strings are written in ASCII (no emoji, "NAO").      *)
(***************************************************************************)
EXTENDS Integers, Sequences, FiniteSets, TLC

\* ------------------------------------------------------------------ bounds
\* probabilities are taken up to MaxUlps representable floats away from
\* each anchor decimal
MaxUlps == 1
\* shapes of the matrix predict_proba may return: 0..MaxRows x 0..MaxCols
MaxRows == 2
MaxCols == 3

\* hundredths around which the probabilities of the model are taken: the
\* tier boundaries, the context thresholds, the confidence boundaries and
\* the examples p = 0.42, 0.52, 0.83
Ancoras == {0, 20, 35, 40, 42, 45, 50, 52, 60, 80, 83, 100}
\* the probabilities of the well-formed models in the two-call specification
AncorasPar == {20, 42, 60, 80}
\* explicit threshold arguments a caller may pass (hundredths)
ThresholdsExplicitos == {20, 80}

\* ------------------------------------------------- Python float arithmetic
RECURSIVE Pow2(_)
Pow2(n) == IF n = 0 THEN 1 ELSE 2 * Pow2(n - 1)

RECURSIVE Pow2Mod(_, _)
Pow2Mod(n, m) == IF n = 0 THEN 1 % m ELSE (2 * Pow2Mod(n - 1, m)) % m

\* binary exponent q of the float nearest c/100 (1 <= c): its unit in the
\* last place is 2^-q
RECURSIVE BinExp(_)
BinExp(c) == IF c >= 100 THEN 52 ELSE 1 + BinExp(2 * c)

\* rounding error of the literal c/100 in units of 2^-q / 100: the
\* remainder R of c * 2^q modulo 100 is rounded to the nearest multiple
RemLit(c) == (c * Pow2Mod(BinExp(c), 100)) % 100

ErrLit(c) == IF RemLit(c) < 50 THEN 0 - RemLit(c) ELSE 100 - RemLit(c)

\* the floats the decimal literals 0.00 .. 1.00 denote
FloatTab ==
    [c \in 0 .. 100 |->
        IF c = 0 THEN [c |-> 0, e |-> 0]
        ELSE [c |-> c, e |-> ErrLit(c) * Pow2(59 - BinExp(c))]]

Float(c) == FloatTab[c]

\* unit in the last place of the float nearest c/100, in units of 2^-59 / 100
UlpTab == [c \in 1 .. 100 |-> 100 * Pow2(59 - BinExp(c))]

\* below a power of two (c in {25, 50, 100}, abaixo) the grid is twice as fine
Ulp(c, abaixo) ==
    IF abaixo /\ c \in {25, 50, 100} THEN UlpTab[c] \div 2 ELSE UlpTab[c]

\* TRUE iff the 53-bit significand of the float nearest c/100 is odd
MantOddTab ==
    [c \in 1 .. 100 |->
        ((c * Pow2Mod(BinExp(c), 200) + ErrLit(c) + 200) % 200) = 100]

MantOdd(c) == MantOddTab[c]

\* the float k representable steps away from Float(c)
Vizinho(c, k) ==
    IF k = 0 THEN Float(c)
    ELSE [c |-> c, e |-> Float(c).e + k * Ulp(c, k < 0)]

FGe(a, b) == a.c > b.c \/ (a.c = b.c /\ a.e >= b.e)

FGt(a, b) == a.c > b.c \/ (a.c = b.c /\ a.e > b.e)

\* round the exact value c/100 + e to the nearest float, ties to even
Round(c, e) ==
    IF c = 0 THEN [c |-> 0, e |-> e]
    ELSE LET base == Float(c).e
             u    == Ulp(c, e < base)
             d    == e - base
             k    == IF d >= 0 THEN d \div u ELSE 0 - (((0 - d) + u - 1) \div u)
             r    == d - k * u
             kOdd == (MantOdd(c) /\ k % 2 = 0) \/ (~MantOdd(c) /\ k % 2 # 0)
             kk   == IF 2 * r < u THEN k
                     ELSE IF 2 * r > u THEN k + 1
                     ELSE IF kOdd THEN k + 1 ELSE k
         IN  [c |-> c, e |-> base + kk * u]

\* abs(a - b) in float arithmetic
FAbsSub(a, b) ==
    IF FGe(a, b) THEN Round(a.c - b.c, a.e - b.e)
    ELSE Round(b.c - a.c, b.e - a.e)

\* ------------------------------------------------------------ constants
\* number of values in the patient lists the program builds
NumFeatures == 8

None == <<>>

Some(v) == <<v>>

\* the contexts a caller may pass: the three of the table and one the
\* table does not hold
Contextos == {"triagem", "consulta_medica", "preventiva", "emergencia"}

\* lengths of the patient list a caller may pass
Comprimentos == (NumFeatures - 1) .. (NumFeatures + 1)

\* the lengths passed in the two-call specification
ComprimentosPar == (NumFeatures - 1) .. NumFeatures

\* the probabilities a model may return: floats around the anchors, in [0, 1]
Probs(ancoras) ==
    { Vizinho(c, k) : c \in ancoras \ {0, 100}, k \in (0 - MaxUlps) .. MaxUlps }
    \cup { Float(0) : c \in ancoras \cap {0} }
    \cup { Vizinho(100, 0 - k) : c \in ancoras \cap {100}, k \in 0 .. MaxUlps }

Probabilidades == Probs(Ancoras)

\* a matrix of r rows and k columns with p in column 1 (the positive class)
\* of every row and 0.0 elsewhere
Matriz(r, k, p) ==
    [i \in 1 .. r |-> [j \in 1 .. k |-> IF j = 2 THEN p ELSE Float(0)]]

\* what predict_proba of a loaded model may return for one input row
Modelos ==
    { Matriz(r, k, p) : r \in 0 .. MaxRows, k \in 0 .. MaxCols, p \in Probabilidades }

\* the models of the two-call specification: well-formed ones and one whose
\* matrix has a single column
ModelosPar ==
    { Matriz(1, 2, Float(c)) : c \in AncorasPar } \cup { Matriz(1, 1, Float(0)) }

\* --------------------------------------------------------- pure functions
\* the table with the values of two contexts exchanged
thresholds_contexto_trocado ==
    [triagem |-> Float(35), consulta_medica |-> Float(60), preventiva |-> Float(45)]

\* the table with a more conservative preventive threshold
thresholds_contexto_conservador ==
    [triagem |-> Float(35), consulta_medica |-> Float(45), preventiva |-> Float(65)]

\* the table of decision thresholds by clinical context
thresholds_contexto ==
    [triagem |-> Float(35), consulta_medica |-> Float(45), preventiva |-> Float(60)]

\* a resolution in which a threshold other than the default wins over the table
ResolverThresholdExplicito(threshold, contexto) ==
    IF contexto \in DOMAIN thresholds_contexto /\ threshold = Float(45)
    THEN thresholds_contexto[contexto]
    ELSE threshold

\* "if contexto in thresholds_contexto: threshold = thresholds_contexto[contexto]"
ResolverThreshold(threshold, contexto) ==
    IF contexto \in DOMAIN thresholds_contexto
    THEN thresholds_contexto[contexto]
    ELSE threshold

\* tiers whose lower boundaries are exclusive
interpretar_risco_exclusivo(probabilidade) ==
    IF FGt(probabilidade, Float(80))
    THEN <<"MUITO ALTO", "Forte indicacao de diabetes - Investigacao urgente">>
    ELSE IF FGt(probabilidade, Float(60))
    THEN <<"ALTO", "Risco elevado - Exames complementares recomendados">>
    ELSE IF FGt(probabilidade, Float(40))
    THEN <<"MODERADO", "Risco moderado - Monitoramento regular">>
    ELSE IF FGt(probabilidade, Float(20))
    THEN <<"BAIXO", "Risco baixo - Prevencao e estilo de vida saudavel">>
    ELSE <<"MUITO BAIXO", "Risco muito baixo - Manter habitos saudaveis">>

\* risk tier and narrative of a probability
interpretar_risco(probabilidade) ==
    IF FGe(probabilidade, Float(80))
    THEN <<"MUITO ALTO", "Forte indicacao de diabetes - Investigacao urgente">>
    ELSE IF FGe(probabilidade, Float(60))
    THEN <<"ALTO", "Risco elevado - Exames complementares recomendados">>
    ELSE IF FGe(probabilidade, Float(40))
    THEN <<"MODERADO", "Risco moderado - Monitoramento regular">>
    ELSE IF FGe(probabilidade, Float(20))
    THEN <<"BAIXO", "Risco baixo - Prevencao e estilo de vida saudavel">>
    ELSE <<"MUITO BAIXO", "Risco muito baixo - Manter habitos saudaveis">>

\* a label with a strict comparison
PredicaoEstrita(probabilidade, threshold) ==
    IF FGt(probabilidade, threshold) THEN "DIABETES" ELSE "NAO-DIABETES"

\* "predicao = 1 if probabilidade >= threshold else 0" and its label
Predicao(probabilidade, threshold) ==
    IF FGe(probabilidade, threshold) THEN "DIABETES" ELSE "NAO-DIABETES"

\* "'Alta' if abs(probabilidade - 0.5) > 0.3 else 'Moderada'"
Confianca(probabilidade) ==
    IF FGt(FAbsSub(probabilidade, Float(50)), Float(30)) THEN "Alta" ELSE "Moderada"

\* a frame that pads a short row
ColunasCompativeisCurta(n, ncols) == n <= ncols

\* pd.DataFrame([dados_paciente], columns=feature_columns) accepts one row
\* of n values under ncols column names only when the two counts agree
ColunasCompativeis(n, ncols) == n = ncols

\* predict_proba(...)[0][1] exists: row 0 and, in it, column 1
IndiceValido(proba) == Len(proba) >= 1 /\ Len(proba[1]) >= 2

\* predict_proba(...)[0][1]
ProbabilidadePositiva(proba) == proba[1][2]

\* a record whose confidence is measured from the threshold of the context
ResultadoConfiancaThreshold(probabilidade, threshold, contexto) ==
    [predicao        |-> Predicao(probabilidade, threshold),
     probabilidade   |-> probabilidade,
     nivel_risco     |-> interpretar_risco(probabilidade)[1],
     descricao_risco |-> interpretar_risco(probabilidade)[2],
     threshold_usado |-> threshold,
     contexto        |-> contexto,
     confianca       |-> IF FGt(FAbsSub(probabilidade, threshold), Float(30))
                         THEN "Alta" ELSE "Moderada"]

\* the record predizer_diabetes compiles
Resultado(probabilidade, threshold, contexto) ==
    [predicao        |-> Predicao(probabilidade, threshold),
     probabilidade   |-> probabilidade,
     nivel_risco     |-> interpretar_risco(probabilidade)[1],
     descricao_risco |-> interpretar_risco(probabilidade)[2],
     threshold_usado |-> threshold,
     contexto        |-> contexto,
     confianca       |-> Confianca(probabilidade)]

\* one call of predizer_diabetes on a patient list of n values: the record
\* returned (or None), the exception that leaves the function (or "None")
\* and the collaborators invoked, in order
predizer_diabetes(n, proba, ncols, threshold, contexto) ==
    LET thr == ResolverThreshold(threshold, contexto)
    IN  IF ~ColunasCompativeis(n, ncols)
        THEN [resultado |-> None, raised |-> "ValueError",
              trace |-> <<"DataFrame">>]
        ELSE IF ~IndiceValido(proba)
        THEN [resultado |-> None, raised |-> "IndexError",
              trace |-> <<"DataFrame", "transform", "predict_proba">>]
        ELSE [resultado |-> Some(Resultado(ProbabilidadePositiva(proba), thr, contexto)),
              raised |-> "None",
              trace |-> <<"DataFrame", "transform", "predict_proba">>]

\* ------------------------------------------------------------------ state
VARIABLES
    modelo,           \* what predict_proba of the loaded model returns
    feature_columns,  \* number of loaded feature names
    defaults,         \* default values of threshold and contexto
    chamada,          \* arguments of the latest predizer_diabetes call
    resultado,        \* record it returned, or None
    raised,           \* exception that left it, or "None"
    trace,            \* collaborators it invoked
    chamador,         \* who made the latest call
    saida,            \* what the caller displayed
    anterior          \* an earlier call: its arguments and outcome

vars == <<modelo, feature_columns, defaults, chamada, resultado, raised, trace,
          chamador, saida, anterior>>

\* an argument the caller leaves out takes the default of the signature
Arg(opt, default) == IF opt = None THEN default ELSE opt[1]

\* defaults that keep the threshold the call resolved
DefaultsAposChamadaGlobal(threshold, contexto) ==
    [defaults EXCEPT !.threshold = ResolverThreshold(threshold, contexto)]

\* the defaults after a call: the function rebinds only its local names
DefaultsAposChamada(threshold, contexto) == defaults

\* the call the history keeps: the latest one when lembra, else the kept one
Lembrar(lembra) ==
    IF lembra /\ chamada # None
    THEN Some([chamada |-> chamada[1], resultado |-> resultado, raised |-> raised])
    ELSE anterior

\* carregar_sistema_predicao has loaded a model, a scaler and the names
InitCom(modelos) ==
    /\ modelo \in modelos
    /\ feature_columns = NumFeatures
    /\ defaults = [threshold |-> Float(45), contexto |-> "consulta_medica"]
    /\ chamada = None
    /\ resultado = None
    /\ raised = "None"
    /\ trace = <<>>
    /\ chamador = "nenhum"
    /\ saida = <<>>
    /\ anterior = None

Init == InitCom(Modelos)

InitPar == InitCom(ModelosPar)

\* a direct call predizer_diabetes(dados, modelo, scaler, feature_columns
\* [, threshold=t] [, contexto=ctx])
Predizer(n, t, ctx, lembra) ==
    LET threshold == Arg(t, defaults.threshold)
        contexto  == Arg(ctx, defaults.contexto)
        r == predizer_diabetes(n, modelo, feature_columns, threshold, contexto)
    IN  /\ chamada' = Some([dados |-> n, threshold |-> t, contexto |-> ctx])
        /\ resultado' = r.resultado
        /\ raised' = r.raised
        /\ trace' = r.trace
        /\ chamador' = "direto"
        /\ saida' = <<>>
        /\ defaults' = DefaultsAposChamada(threshold, contexto)
        /\ anterior' = Lembrar(lembra)
        /\ UNCHANGED <<modelo, feature_columns>>

\* contextos_map of menu_interativo and its .get(contexto_num, 'consulta_medica')
contextos_map ==
    ("1" :> "triagem") @@ ("2" :> "consulta_medica") @@ ("3" :> "preventiva")

ContextoEscolhido(contexto_num) ==
    IF contexto_num \in DOMAIN contextos_map
    THEN contextos_map[contexto_num]
    ELSE "consulta_medica"

\* what a caller displays: a report, a table line or an error message
Linha(tipo, res) == [tipo |-> tipo, res |-> res]

\* menu_interativo: the eight values are read (a value that does not parse
\* raises inside the try), the context is chosen by number, the prediction
\* is made without an explicit threshold and the report displayed; any
\* exception is caught and reported as an error message
menu_interativo(entrada_valida, contexto_num, lembra) ==
    LET contexto == ContextoEscolhido(contexto_num)
        r == predizer_diabetes(NumFeatures, modelo, feature_columns,
                               defaults.threshold, contexto)
    IN  /\ chamador' = "menu_interativo"
        /\ IF entrada_valida
           THEN /\ chamada' = Some([dados |-> NumFeatures, threshold |-> None,
                                    contexto |-> Some(contexto)])
                /\ resultado' = r.resultado
                /\ raised' = r.raised
                /\ trace' = r.trace
                /\ saida' = IF r.raised = "None"
                            THEN <<Linha("relatorio", r.resultado)>>
                            ELSE <<Linha("erro", None)>>
                /\ defaults' = DefaultsAposChamada(defaults.threshold, contexto)
           ELSE /\ chamada' = None
                /\ resultado' = None
                /\ raised' = "None"
                /\ trace' = <<>>
                /\ saida' = <<Linha("erro", None)>>
                /\ defaults' = defaults
        /\ anterior' = Lembrar(lembra)
        /\ UNCHANGED <<modelo, feature_columns>>

\* the contexts comparar_thresholds goes through, in order
contextos_comparados == <<"triagem", "consulta_medica", "preventiva">>

\* the i-th call of the loop of comparar_thresholds on dados_limitrofe
ChamadaComparar(i) ==
    predizer_diabetes(NumFeatures, modelo, feature_columns,
                      defaults.threshold, contextos_comparados[i])

\* the calls of the loop that are made: all, or up to the first that raises
UltimaComparar ==
    LET falhas == { i \in 1 .. Len(contextos_comparados) :
                        ChamadaComparar(i).raised # "None" }
    IN  IF falhas = {} THEN Len(contextos_comparados)
        ELSE CHOOSE i \in falhas : \A j \in falhas : i <= j

\* comparar_thresholds: one table line per context for the same patient;
\* an exception of a call leaves the loop and the function, and main
\* reports it
comparar_thresholds(lembra) ==
    LET u == UltimaComparar
        r == ChamadaComparar(u)
        linhas == [i \in 1 .. (IF r.raised = "None" THEN u ELSE u - 1) |->
                      Linha("linha", ChamadaComparar(i).resultado)]
    IN  /\ chamador' = "comparar_thresholds"
        /\ chamada' = Some([dados |-> NumFeatures, threshold |-> None,
                            contexto |-> Some(contextos_comparados[u])])
        /\ resultado' = r.resultado
        /\ raised' = r.raised
        /\ trace' = r.trace
        /\ saida' = IF r.raised = "None" THEN linhas
                    ELSE Append(linhas, Linha("erro", None))
        /\ defaults' = DefaultsAposChamada(defaults.threshold, contextos_comparados[u])
        /\ anterior' = Lembrar(lembra)
        /\ UNCHANGED <<modelo, feature_columns>>

\* the arguments of a direct call
Thresholds == {None} \cup { Some(Float(c)) : c \in ThresholdsExplicitos }

ContextosArg == {None} \cup { Some(c) : c \in Contextos }

NextCom(lembrancas, comprimentos) ==
    \/ \E n \in comprimentos, t \in Thresholds, ctx \in ContextosArg,
          lembra \in lembrancas :
          Predizer(n, t, ctx, lembra)
    \/ \E entrada_valida \in BOOLEAN, contexto_num \in {"1", "2", "3", "9"},
          lembra \in lembrancas :
          menu_interativo(entrada_valida, contexto_num, lembra)
    \/ \E lembra \in lembrancas : comparar_thresholds(lembra)

Next == NextCom({FALSE}, Comprimentos)

NextPar == NextCom(BOOLEAN, ComprimentosPar)

\* single calls, over every model
Spec == Init /\ [][Next]_vars

\* two calls side by side: the latest and one kept from before
SpecPar == InitPar /\ [][NextPar]_vars

\* ----------------------------------------------------------------- claims
\* vocabulary of the properties: the latest call, its effective context
\* (consulta_medica when left out) and its record
Houve == chamada # None

Sucesso == chamada # None /\ resultado # None

ContextoDaChamada ==
    IF chamada[1].contexto = None THEN "consulta_medica"
    ELSE chamada[1].contexto[1]

Reconhecidos == {"triagem", "consulta_medica", "preventiva"}

R == resultado[1]

\* threshold of the table for a recognized context, as the documentation
\* states it
ThresholdDocumentado(contexto) ==
    IF contexto = "triagem" THEN Float(35)
    ELSE IF contexto = "preventiva" THEN Float(60)
    ELSE Float(45)

\* C1 as stated: every call reports threshold 0.35 under triagem, 0.45 under
\* consulta_medica, 0.60 under preventiva and 0.45 under any other context
C1_Original ==
    Sucesso => R.threshold_usado = ThresholdDocumentado(ContextoDaChamada)

\* C1 amended: the threshold reported is 0.35 under triagem, 0.45 under
\* consulta_medica, 0.60 under preventiva, and 0.45 under any other context
\* when the caller passes no explicit threshold
C1_ThresholdPorContexto ==
    (Sucesso /\ (ContextoDaChamada \in Reconhecidos \/ chamada[1].threshold = None))
        => R.threshold_usado = ThresholdDocumentado(ContextoDaChamada)

C1_Witness ==
    /\ Sucesso
    /\ chamada[1].contexto = Some("emergencia")
    /\ chamada[1].threshold = None
    /\ R.threshold_usado = Float(45)

\* C2: a recognized context overrides an explicit threshold t; under an
\* unrecognized context the threshold used is exactly t, 0.45 when none is
\* passed
C2_Precedencia ==
    Sucesso =>
        IF ContextoDaChamada \in Reconhecidos
        THEN R.threshold_usado = ThresholdDocumentado(ContextoDaChamada)
        ELSE R.threshold_usado =
                 (IF chamada[1].threshold = None THEN Float(45)
                  ELSE chamada[1].threshold[1])

C2_Witness ==
    /\ Sucesso
    /\ chamada[1].threshold = Some(Float(80))
    /\ chamada[1].contexto = Some("triagem")
    /\ R.threshold_usado = Float(35)

\* C3: the label is DIABETES iff the probability of the model is >= the
\* threshold stored in threshold_usado, NAO-DIABETES otherwise; equality is
\* labelled positive
C3_Rotulo ==
    Sucesso =>
        /\ R.predicao \in {"DIABETES", "NAO-DIABETES"}
        /\ R.predicao = "DIABETES" <=> FGe(modelo[1][2], R.threshold_usado)
        /\ modelo[1][2] = R.threshold_usado => R.predicao = "DIABETES"

C3_Witness ==
    /\ Sucesso
    /\ modelo[1][2] = R.threshold_usado
    /\ R.predicao = "DIABETES"

\* the five tiers in increasing order and the narrative of each
Ordem(nivel) ==
    IF nivel = "MUITO BAIXO" THEN 1
    ELSE IF nivel = "BAIXO" THEN 2
    ELSE IF nivel = "MODERADO" THEN 3
    ELSE IF nivel = "ALTO" THEN 4
    ELSE IF nivel = "MUITO ALTO" THEN 5
    ELSE 0

Narrativa(nivel) ==
    IF nivel = "MUITO BAIXO" THEN "Risco muito baixo - Manter habitos saudaveis"
    ELSE IF nivel = "BAIXO" THEN "Risco baixo - Prevencao e estilo de vida saudavel"
    ELSE IF nivel = "MODERADO" THEN "Risco moderado - Monitoramento regular"
    ELSE IF nivel = "ALTO" THEN "Risco elevado - Exames complementares recomendados"
    ELSE "Forte indicacao de diabetes - Investigacao urgente"

\* C4: the tier is very-high for p >= 0.8, high for 0.6 <= p < 0.8, moderate
\* for 0.4 <= p < 0.6, low for 0.2 <= p < 0.4 and very-low below 0.2; each
\* tier carries its own narrative; a probability that is not larger never
\* gets a higher tier
C4_Tiers ==
    Sucesso =>
        LET p == R.probabilidade
        IN  /\ Ordem(R.nivel_risco) \in 1 .. 5
            /\ R.nivel_risco = "MUITO ALTO" <=> FGe(p, Float(80))
            /\ R.nivel_risco = "ALTO" <=> (FGe(p, Float(60)) /\ ~FGe(p, Float(80)))
            /\ R.nivel_risco = "MODERADO" <=> (FGe(p, Float(40)) /\ ~FGe(p, Float(60)))
            /\ R.nivel_risco = "BAIXO" <=> (FGe(p, Float(20)) /\ ~FGe(p, Float(40)))
            /\ R.nivel_risco = "MUITO BAIXO" <=> ~FGe(p, Float(20))
            /\ R.descricao_risco = Narrativa(R.nivel_risco)
            /\ \A q \in Probabilidades :
                   FGe(p, q) => Ordem(interpretar_risco(q)[1]) <= Ordem(R.nivel_risco)

C4_Witness ==
    /\ Sucesso
    /\ R.probabilidade = Float(60)
    /\ R.nivel_risco = "ALTO"

\* C5: two calls on the same patient list and model that differ in context or
\* explicit threshold return the same probability, tier, narrative and
\* confidence
C5_ContextoNaoInflui ==
    (/\ Sucesso
     /\ anterior # None
     /\ anterior[1].resultado # None
     /\ anterior[1].chamada.dados = chamada[1].dados)
        => LET A == anterior[1].resultado[1]
           IN  /\ A.probabilidade = R.probabilidade
               /\ A.nivel_risco = R.nivel_risco
               /\ A.descricao_risco = R.descricao_risco
               /\ A.confianca = R.confianca

C5_Witness ==
    /\ Sucesso
    /\ anterior # None
    /\ anterior[1].resultado # None
    /\ anterior[1].resultado[1].contexto = "triagem"
    /\ anterior[1].resultado[1].predicao = "DIABETES"
    /\ R.contexto = "preventiva"
    /\ R.predicao = "NAO-DIABETES"
    /\ R.probabilidade = Float(42)
    /\ R.nivel_risco = "MODERADO"
    /\ anterior[1].resultado[1].nivel_risco = "MODERADO"

\* C6 as stated: confidence is Alta iff p > 0.8 or p < 0.2, and Moderada at
\* p = 0.8 and at p = 0.2
C6_Confianca ==
    Sucesso =>
        LET p == R.probabilidade
        IN  /\ R.confianca = "Alta" <=> (FGt(p, Float(80)) \/ FGt(Float(20), p))
            /\ p \in {Float(80), Float(20)} => R.confianca = "Moderada"

\* C7: a patient list whose length differs from the number of feature names
\* fails with the schema error (the ValueError of the frame construction)
\* before the scaler or the model is invoked, and returns no record
C7_Schema ==
    (Houve /\ chamada[1].dados # feature_columns)
        => /\ raised = "ValueError"
           /\ resultado = None
           /\ \A i \in 1 .. Len(trace) : trace[i] \notin {"transform", "predict_proba"}

C7_Witness ==
    /\ Houve
    /\ chamada[1].dados = NumFeatures - 1
    /\ feature_columns = NumFeatures
    /\ raised = "ValueError"
    /\ resultado = None

\* the matrix of the model has one row and two columns
UmaLinhaDuasColunas == Len(modelo) = 1 /\ Len(modelo[1]) = 2

\* C8 as stated: when predict_proba returns anything other than a one-row,
\* two-column matrix the call fails (the IndexError of the indexing) and
\* no record is produced
C8_SaidaDoModelo ==
    (Houve /\ chamada[1].dados = feature_columns /\ ~UmaLinhaDuasColunas)
        => (raised = "IndexError" /\ resultado = None)

\* C9: two calls with identical arguments return the same outcome, whatever
\* calls are made in between, and a call leaves the defaults of the
\* signature as they were
C9_Determinismo ==
    /\ defaults = [threshold |-> Float(45), contexto |-> "consulta_medica"]
    /\ (Houve /\ anterior # None /\ anterior[1].chamada = chamada[1])
           => (anterior[1].resultado = resultado /\ anterior[1].raised = raised)

C9_Witness ==
    /\ Sucesso
    /\ anterior # None
    /\ anterior[1].chamada = chamada[1]
    /\ chamada[1].contexto = Some("emergencia")
    /\ chamada[1].threshold = None
    /\ anterior[1].resultado = resultado

\* label of the i-th line of the table of comparar_thresholds
RotuloLinha(i) == saida[i].res[1].predicao

\* C10: under a recognized context a tier high or very-high is always
\* labelled DIABETES and a tier very-low always NAO-DIABETES; positive under
\* preventiva implies positive under consulta_medica, which implies positive
\* under triagem
C10_RotuloETier ==
    /\ (Sucesso /\ ContextoDaChamada \in Reconhecidos)
           => /\ R.nivel_risco \in {"ALTO", "MUITO ALTO"} => R.predicao = "DIABETES"
              /\ R.nivel_risco = "MUITO BAIXO" => R.predicao = "NAO-DIABETES"
    /\ (chamador = "comparar_thresholds" /\ raised = "None")
           => /\ Len(saida) = 3
              /\ RotuloLinha(3) = "DIABETES" => RotuloLinha(2) = "DIABETES"
              /\ RotuloLinha(2) = "DIABETES" => RotuloLinha(1) = "DIABETES"

C10_Witness ==
    /\ Sucesso
    /\ ContextoDaChamada = "preventiva"
    /\ R.probabilidade = Float(60)
    /\ R.nivel_risco = "ALTO"
    /\ R.predicao = "DIABETES"

====
